---- MODULE Spec2Model ----
(***************************************************************************)
(* Chesster move-selection core: the ModelCache (ML/model_cache.py) and    *)
(* the alpha-beta Agent (ML/agent.py).                                     *)
(*                                                                         *)
(* Spec       : one ModelCache driven by sequential calls.                 *)
(* SpecThreads: two threads, each running one get or put on a shared       *)
(*              ModelCache, interleaved at the level of single dictionary  *)
(*              operations.                                                *)
(* SpecSearch : Agent.get_move on a game tree with a stubbed evaluator.    *)
(***************************************************************************)
EXTENDS Integers, Sequences, FiniteSets, TLC

\* ------------------------------------------------------------------ bounds
MaxCapacity == 2
MaxPreload == 2
MaxDepth == 3

MaxEvalDepth == 2

MaxPieces == 2

\* ------------------------------------------------------ program constants
\* float('inf'); float('-inf') is its negation
PosInf == 1000
\* Agent.__init__(search_depth=3)
search_depth == 3

\* ------------------------------------------------------------ value domains
ModelIds == {"a", "b", "c"}
\* handles a caller passes to put; a handle built by a load is Loaded
PutModels == {"h1", "h2"}
Loaded == "db"
None == "None"
\* what the external store does on one _load_from_database call
LoadOutcomes == {"ok", "no_metadata", "no_bytes", "unknown_arch", "exception"}
Capacities == (0 - 1)..MaxCapacity
PreloadLists == UNION {[1..n -> ModelIds] : n \in 0..MaxPreload}

VARIABLES
    capacity,   \* self.capacity
    cache,      \* self.cache: OrderedDict as a sequence, oldest first
    lastOp,     \* observation of the last call: arguments, return value,
                \* number of store loads, ids evicted
    touched,    \* history: ids in order of their last get-with-handle/put
                \* since construction or the last remove/clear, with the
                \* handle last stored for each
    pc,         \* per thread: the line of get/put it is about to run
    call,       \* per thread: the call it runs, its local model, its result
    cache0,     \* the cache when the threads started
    turn0,      \* board.turn of the position given to get_move
    stubs,      \* the game tree and evaluator: customised positions
    depth,      \* the depth argument of get_move
    self_search_depth,  \* self.search_depth of the Agent
    attrs,      \* what the rules engine says of the moves given to
                \* _order_moves: capture, en passant, check, promotion
    fen,        \* the position given to encode_board
    nodes_searched,     \* self.nodes_searched of the Agent
    result      \* outcome of the last call of a public method

cacheVars == <<capacity, cache, lastOp, touched>>
threadVars == <<pc, call, cache0>>
scenarioVars == <<turn0, stubs, depth, self_search_depth, attrs, fen>>
searchVars == <<scenarioVars, nodes_searched, result>>
vars == <<capacity, cache, lastOp, touched, pc, call, cache0,
          turn0, stubs, depth, self_search_depth, attrs, fen,
          nodes_searched, result>>

Min(x, y) == IF x <= y THEN x ELSE y

Max(x, y) == IF x >= y THEN x ELSE y

\* --------------------------------------------------- OrderedDict primitives
Keys(c) == {c[i].id : i \in DOMAIN c}

contains(c, model_id) == model_id \in Keys(c)

size(c) == Len(c)

IndexOf(c, model_id) == CHOOSE i \in DOMAIN c : c[i].id = model_id

GetItem(c, model_id) == c[IndexOf(c, model_id)].model

Without(c, model_id) == SelectSeq(c, LAMBDA e : e.id # model_id)

MoveToEnd(c, model_id) ==
    Append(Without(c, model_id), c[IndexOf(c, model_id)])

\* d[k] = v : in place for an existing key, appended for a new one
SetItem(c, model_id, model) ==
    IF contains(c, model_id)
    THEN [i \in DOMAIN c |->
            IF c[i].id = model_id THEN [id |-> model_id, model |-> model]
            ELSE c[i]]
    ELSE Append(c, [id |-> model_id, model |-> model])

Reverse(s) == [i \in 1..Len(s) |-> s[Len(s) + 1 - i]]

get_cached_ids(c) == Reverse([i \in DOMAIN c |-> c[i].id])

\* ------------------------------------------------------------- ModelCache
_load_from_database(model_id, outcome) ==
    IF outcome = "ok" THEN Loaded ELSE None

\* put that never evicts
put_NoEvict(c, cap, model_id, model) ==
    IF contains(c, model_id)
    THEN [cache |-> SetItem(MoveToEnd(c, model_id), model_id, model),
          evicted |-> <<>>]
    ELSE [cache |-> SetItem(c, model_id, model), evicted |-> <<>>]

\* put that counts an update of a cached id as an insertion
put_AlwaysEvict(c, cap, model_id, model) ==
    LET c1 == IF contains(c, model_id)
              THEN SetItem(MoveToEnd(c, model_id), model_id, model)
              ELSE SetItem(c, model_id, model)
    IN IF Len(c1) > cap \/ (contains(c, model_id) /\ Len(c1) = cap)
       THEN [cache |-> Tail(c1), evicted |-> <<Head(c1).id>>]
       ELSE [cache |-> c1, evicted |-> <<>>]

put(c, cap, model_id, model) ==
    IF contains(c, model_id)
    THEN [cache |-> SetItem(MoveToEnd(c, model_id), model_id, model),
          evicted |-> <<>>]
    ELSE LET c1 == SetItem(c, model_id, model) IN
         IF Len(c1) > cap
         THEN [cache |-> Tail(c1), evicted |-> <<Head(c1).id>>]
         ELSE [cache |-> c1, evicted |-> <<>>]

\* get whose hit does not refresh the recency (FIFO eviction)
get_NoRefresh(c, cap, model_id, outcome) ==
    IF contains(c, model_id)
    THEN [cache |-> c,
          ret |-> GetItem(c, model_id), loads |-> 0, evicted |-> <<>>]
    ELSE LET model == _load_from_database(model_id, outcome) IN
         IF model # None
         THEN LET p == put(c, cap, model_id, model) IN
              [cache |-> p.cache, ret |-> model, loads |-> 1,
               evicted |-> p.evicted]
         ELSE [cache |-> c, ret |-> None, loads |-> 1, evicted |-> <<>>]

\* get that remembers a failed load as an empty entry
get_NegativeCache(c, cap, model_id, outcome) ==
    IF contains(c, model_id)
    THEN [cache |-> MoveToEnd(c, model_id),
          ret |-> GetItem(c, model_id), loads |-> 0, evicted |-> <<>>]
    ELSE LET model == _load_from_database(model_id, outcome)
             p == put(c, cap, model_id, model)
         IN [cache |-> p.cache, ret |-> model, loads |-> 1,
             evicted |-> p.evicted]

\* get that goes to the store on every call
get_AlwaysLoad(c, cap, model_id, outcome) ==
    LET model == _load_from_database(model_id, outcome) IN
    IF model # None
    THEN LET p == put(c, cap, model_id, model) IN
         [cache |-> p.cache, ret |-> model, loads |-> 1,
          evicted |-> p.evicted]
    ELSE [cache |-> c, ret |-> None, loads |-> 1, evicted |-> <<>>]

get(c, cap, model_id, outcome) ==
    IF contains(c, model_id)
    THEN [cache |-> MoveToEnd(c, model_id),
          ret |-> GetItem(c, model_id), loads |-> 0, evicted |-> <<>>]
    ELSE LET model == _load_from_database(model_id, outcome) IN
         IF model # None
         THEN LET p == put(c, cap, model_id, model) IN
              [cache |-> p.cache, ret |-> model, loads |-> 1,
               evicted |-> p.evicted]
         ELSE [cache |-> c, ret |-> None, loads |-> 1, evicted |-> <<>>]

RECURSIVE preload(_, _, _, _)
preload(c, cap, model_ids, outcomes) ==
    IF model_ids = <<>>
    THEN [cache |-> c, loads |-> 0, evicted |-> <<>>]
    ELSE IF ~contains(c, Head(model_ids))
         THEN LET g == get(c, cap, Head(model_ids), Head(outcomes))
                  r == preload(g.cache, cap, Tail(model_ids), Tail(outcomes))
              IN [cache |-> r.cache, loads |-> g.loads + r.loads,
                  evicted |-> g.evicted \o r.evicted]
         ELSE preload(c, cap, Tail(model_ids), Tail(outcomes))

remove(c, model_id) ==
    IF contains(c, model_id)
    THEN [cache |-> Without(c, model_id), ret |-> "True"]
    ELSE [cache |-> c, ret |-> "False"]

clear(c) == <<>>

\* ------------------------------------------------------- recency history
Touch(t, model_id, model) ==
    Append(Without(t, model_id), [id |-> model_id, model |-> model])

\* a get that returned a handle: a load stores the handle, a hit only
\* refreshes the recency
TouchGet(t, model_id, ret, loads) ==
    IF ret = None THEN t
    ELSE IF loads = 0 /\ contains(t, model_id)
         THEN MoveToEnd(t, model_id)
         ELSE Touch(t, model_id, ret)

Restrict(t, ids) == SelectSeq(t, LAMBDA e : e.id \in ids)

RECURSIVE TouchPreload(_, _, _, _, _)
TouchPreload(t, c, cap, model_ids, outcomes) ==
    IF model_ids = <<>> THEN t
    ELSE IF ~contains(c, Head(model_ids))
         THEN LET g == get(c, cap, Head(model_ids), Head(outcomes)) IN
              TouchPreload(TouchGet(t, Head(model_ids), g.ret, g.loads),
                           g.cache, cap, Tail(model_ids), Tail(outcomes))
         ELSE TouchPreload(t, c, cap, Tail(model_ids), Tail(outcomes))

Op(name, ids, model, ret, loads, evicted) ==
    [name |-> name, ids |-> ids, model |-> model, ret |-> ret,
     loads |-> loads, evicted |-> evicted]

\* ---------------------------------------------------------------- actions
\* ModelCache.__init__: the capacity is stored as given
Threads == {"t1", "t2"}

NoCall == [name |-> "none", id |-> None, model |-> None, ret |-> None]

ThreadsIdle ==
    /\ pc = [t \in Threads |-> "idle"]
    /\ call = [t \in Threads |-> NoCall]
    /\ cache0 = <<>>

NoResult ==
    [status |-> "none", ret |-> <<>>, move |-> 0, value |-> 0, nodes |-> 0,
     board |-> <<>>, pushes |-> 0, pops |-> 0, balanced |-> TRUE,
     leaves |-> {}, forwarded |-> {}, calls |-> <<>>, tried |-> <<>>,
     op |-> "none", entry |-> <<>>, first |-> <<>>]

SearchIdle ==
    /\ turn0 = "white"
    /\ stubs = <<>>
    /\ depth = 1
    /\ self_search_depth = search_depth
    /\ attrs = <<>>
    /\ fen = None
    /\ nodes_searched = 0
    /\ result = NoResult

Init ==
    /\ capacity \in Capacities
    /\ cache = <<>>
    /\ lastOp = Op("init", <<>>, None, None, 0, <<>>)
    /\ touched = <<>>
    /\ ThreadsIdle
    /\ SearchIdle

Get(model_id, outcome) ==
    LET g == get(cache, capacity, model_id, outcome) IN
    /\ cache' = g.cache
    /\ lastOp' = Op("get", <<model_id>>, None, g.ret, g.loads, g.evicted)
    /\ touched' = TouchGet(touched, model_id, g.ret, g.loads)
    /\ UNCHANGED <<capacity, threadVars, searchVars>>

Put(model_id, model) ==
    LET p == put(cache, capacity, model_id, model) IN
    /\ cache' = p.cache
    /\ lastOp' = Op("put", <<model_id>>, model, None, 0, p.evicted)
    /\ touched' = Touch(touched, model_id, model)
    /\ UNCHANGED <<capacity, threadVars, searchVars>>

Preload(model_ids, outcomes) ==
    LET r == preload(cache, capacity, model_ids, outcomes) IN
    /\ cache' = r.cache
    /\ lastOp' = Op("preload", model_ids, None, None, r.loads, r.evicted)
    /\ touched' = TouchPreload(touched, cache, capacity, model_ids, outcomes)
    /\ UNCHANGED <<capacity, threadVars, searchVars>>

Remove(model_id) ==
    LET r == remove(cache, model_id) IN
    /\ cache' = r.cache
    /\ lastOp' = Op("remove", <<model_id>>, None, r.ret, 0, <<>>)
    /\ touched' = Restrict(touched, Keys(r.cache))
    /\ UNCHANGED <<capacity, threadVars, searchVars>>

Clear ==
    /\ cache' = clear(cache)
    /\ lastOp' = Op("clear", <<>>, None, None, 0, <<>>)
    /\ touched' = <<>>
    /\ UNCHANGED <<capacity, threadVars, searchVars>>

Next ==
    \/ \E model_id \in ModelIds, outcome \in LoadOutcomes :
          Get(model_id, outcome)
    \/ \E model_id \in ModelIds, model \in PutModels : Put(model_id, model)
    \/ \E model_ids \in PreloadLists :
          \E oks \in [1..Len(model_ids) -> {"ok", "no_metadata"}] :
             Preload(model_ids, oks)
    \/ \E model_id \in ModelIds : Remove(model_id)
    \/ Clear

Spec == Init /\ [][Next]_vars

\* --------------------------------------------------- threads on one cache
\* Neither get nor put takes a lock; each dictionary operation is one step.
\* caches a sequence of puts can have built
BuiltCaches(cap) ==
    {c \in UNION {[1..n -> [id : ModelIds, model : {"h1"}]] : n \in 0..cap} :
        \A i, j \in DOMAIN c : c[i].id = c[j].id => i = j}

Calls ==
    [name : {"get"}, id : ModelIds, model : {None}, ret : {None}]
    \cup [name : {"put"}, id : ModelIds, model : PutModels, ret : {None}]

ThreadsInit ==
    /\ capacity \in 1..MaxCapacity
    /\ cache \in BuiltCaches(capacity)
    /\ cache0 = cache
    /\ lastOp = Op("init", <<>>, None, None, 0, <<>>)
    /\ touched = <<>>
    /\ call \in [Threads -> Calls]
    /\ pc = [t \in Threads |->
                IF call[t].name = "get" THEN "get47" ELSE "put118"]
    /\ SearchIdle

Goto(t, line) ==
    /\ pc' = [pc EXCEPT ![t] = line]
    /\ UNCHANGED <<capacity, lastOp, touched, cache0, searchVars>>

\* get, line 47: if model_id in self.cache
TGetCheck(t) ==
    /\ pc[t] = "get47"
    /\ Goto(t, IF contains(cache, call[t].id) THEN "get49" ELSE "get54")
    /\ UNCHANGED <<cache, call>>

\* get, line 49: self.cache.move_to_end(model_id)
TGetMove(t) ==
    /\ pc[t] = "get49"
    /\ IF contains(cache, call[t].id)
       THEN /\ cache' = MoveToEnd(cache, call[t].id)
            /\ Goto(t, "get51")
       ELSE /\ cache' = cache
            /\ Goto(t, "KeyError")
    /\ UNCHANGED call

\* get, line 51: return self.cache[model_id]
TGetReturn(t) ==
    /\ pc[t] = "get51"
    /\ IF contains(cache, call[t].id)
       THEN /\ call' = [call EXCEPT ![t].ret = GetItem(cache, call[t].id)]
            /\ Goto(t, "done")
       ELSE /\ call' = call
            /\ Goto(t, "KeyError")
    /\ UNCHANGED cache

\* get, lines 54-61: load, then put the model or return None
TGetLoad(t, outcome) ==
    /\ pc[t] = "get54"
    /\ LET model == _load_from_database(call[t].id, outcome) IN
       /\ call' = [call EXCEPT ![t].model = model, ![t].ret = model]
       /\ Goto(t, IF model # None THEN "put118" ELSE "done")
    /\ UNCHANGED cache

\* put, line 118: if model_id in self.cache
TPutCheck(t) ==
    /\ pc[t] = "put118"
    /\ Goto(t, IF contains(cache, call[t].id) THEN "put120" ELSE "put124")
    /\ UNCHANGED <<cache, call>>

\* put, line 120: self.cache.move_to_end(model_id)
TPutMove(t) ==
    /\ pc[t] = "put120"
    /\ IF contains(cache, call[t].id)
       THEN /\ cache' = MoveToEnd(cache, call[t].id)
            /\ Goto(t, "put121")
       ELSE /\ cache' = cache
            /\ Goto(t, "KeyError")
    /\ UNCHANGED call

\* put, line 121: self.cache[model_id] = model
TPutUpdate(t) ==
    /\ pc[t] = "put121"
    /\ cache' = SetItem(cache, call[t].id, call[t].model)
    /\ Goto(t, "done")
    /\ UNCHANGED call

\* put, line 124: self.cache[model_id] = model
TPutInsert(t) ==
    /\ pc[t] = "put124"
    /\ cache' = SetItem(cache, call[t].id, call[t].model)
    /\ Goto(t, "put127")
    /\ UNCHANGED call

\* put, line 127: if len(self.cache) > self.capacity
TPutLen(t) ==
    /\ pc[t] = "put127"
    /\ Goto(t, IF Len(cache) > capacity THEN "put128" ELSE "done")
    /\ UNCHANGED <<cache, call>>

\* put, line 128: self.cache.popitem(last=False)
TPutPop(t) ==
    /\ pc[t] = "put128"
    /\ IF cache # <<>>
       THEN /\ cache' = Tail(cache)
            /\ Goto(t, "done")
       ELSE /\ cache' = cache
            /\ Goto(t, "KeyError")
    /\ UNCHANGED call

ThreadsNext ==
    \E t \in Threads :
        \/ TGetCheck(t)
        \/ TGetMove(t)
        \/ TGetReturn(t)
        \/ \E outcome \in LoadOutcomes : TGetLoad(t, outcome)
        \/ TPutCheck(t)
        \/ TPutMove(t)
        \/ TPutUpdate(t)
        \/ TPutInsert(t)
        \/ TPutLen(t)
        \/ TPutPop(t)

SpecThreads == ThreadsInit /\ [][ThreadsNext]_vars

\* ------------------------------------------------------------ rules engine
\* A Position is the sequence of moves pushed on the board given to
\* get_move.  A plain position has the legal moves 1 and 2 (in generation
\* order), is not game-over, and the network scores it 0; stubs customises
\* at most two positions.  Every game ends: a position GameEnd plies after
\* the root is a draw by the seventy-five-move rule.
MoveIds == {1, 2}

Kinds == {"nn_neginf", "nn_minus1", "nn_plus1", "nn_posinf", "nn_raises",
          "checkmate", "stalemate", "insufficient_material",
          "fivefold_repetition", "one_move", "m2_check", "m2_takes_queen"}

PositionsUpTo(d) == UNION {[1..n -> MoveIds] : n \in 0..d}

Scenarios(d) ==
    UNION {[S -> Kinds] :
             S \in {{}} \cup {{p, q} : p, q \in PositionsUpTo(d)}}

NegInf == 0 - PosInf

GameEnd == MaxDepth + 1

KindAt(pos) ==
    IF pos \in DOMAIN stubs THEN stubs[pos]
    ELSE IF Len(pos) >= GameEnd THEN "seventyfive_moves"
    ELSE "plain"

\* board.push(move)
push(board, move) == Append(board, move)

\* board.pop that leaves the move on the board
pop_Keep(board) == board

\* board.pop()
pop(board) == SubSeq(board, 1, Len(board) - 1)

\* board.turn after the moves of pos
turn(pos) ==
    IF Len(pos) % 2 = 0 THEN turn0
    ELSE IF turn0 = "white" THEN "black" ELSE "white"

is_checkmate(pos) == KindAt(pos) = "checkmate"

is_stalemate(pos) == KindAt(pos) = "stalemate"

is_insufficient_material(pos) == KindAt(pos) = "insufficient_material"

is_game_over(pos) ==
    KindAt(pos) \in {"checkmate", "stalemate", "insufficient_material",
                     "fivefold_repetition", "seventyfive_moves"}

legal_moves(pos) ==
    IF is_checkmate(pos) \/ is_stalemate(pos) THEN <<>>
    ELSE IF KindAt(pos) = "one_move" THEN <<1>>
    ELSE <<1, 2>>

\* board.push(move); board.is_check()
\* the move is one of those attrs describes: a move of the board given
\* to _order_moves on its own
Described(pos, move) == pos = <<>> /\ move \in DOMAIN attrs

gives_check(pos, move) ==
    \/ is_checkmate(push(pos, move))
    \/ KindAt(pos) = "m2_check" /\ move = 2
    \/ Described(pos, move) /\ attrs[move].check

\* board.is_capture(move): true of en passant captures too
is_capture(pos, move) ==
    \/ KindAt(pos) = "m2_takes_queen" /\ move = 2
    \/ Described(pos, move) /\ attrs[move].captures # None

\* board.piece_at(move.to_square): the square an en passant capture moves
\* to is empty
piece_at_to_square(pos, move) ==
    IF Described(pos, move)
    THEN IF attrs[move].en_passant THEN None ELSE attrs[move].captures
    ELSE IF KindAt(pos) = "m2_takes_queen" /\ move = 2 THEN "QUEEN"
    ELSE None

\* captured_piece of move_priority: None when the move is no capture
captured_piece(pos, move) ==
    IF is_capture(pos, move) THEN piece_at_to_square(pos, move) ELSE None

\* move.promotion
promotion(pos, move) == Described(pos, move) /\ attrs[move].promotion

\* self.model(board_tensor).item()
forward(pos) ==
    CASE KindAt(pos) = "nn_neginf" -> NegInf
      [] KindAt(pos) = "nn_minus1" -> 0 - 1
      [] KindAt(pos) = "nn_plus1" -> 1
      [] KindAt(pos) = "nn_posinf" -> PosInf
      [] OTHER -> 0

\* the encoder or the network fails on this position
forward_raises(pos) == KindAt(pos) = "nn_raises"

\* ------------------------------------------------------------------- Agent
piece_values(piece) ==
    CASE piece = "PAWN" -> 1
      [] piece = "KNIGHT" -> 3
      [] piece = "BISHOP" -> 3
      [] piece = "ROOK" -> 5
      [] piece = "QUEEN" -> 9
      [] OTHER -> 0

move_priority(pos, move) ==
    LET capture == IF captured_piece(pos, move) # None
                   THEN piece_values(captured_piece(pos, move)) * 10 ELSE 0
        check == IF gives_check(pos, move) THEN 50 ELSE 0
        promo == IF promotion(pos, move) THEN 100 ELSE 0
    IN 0 - (capture + check + promo)

\* sorted(moves, key=move_priority): ascending key, stable
RECURSIVE _order_moves(_, _)
_order_moves(pos, moves) ==
    IF moves = <<>> THEN <<>>
    ELSE LET last == moves[Len(moves)]
             rest == _order_moves(pos, SubSeq(moves, 1, Len(moves) - 1))
         IN SelectSeq(rest, LAMBDA m :
                move_priority(pos, m) <= move_priority(pos, last))
            \o <<last>>
            \o SelectSeq(rest, LAMBDA m :
                move_priority(pos, m) > move_priority(pos, last))

\* The search runs on one mutable board and one Agent.  Its operators pass
\* a record st along: board (the move stack), nodes (self.nodes_searched),
\* value and raised (the result of the last call: a return value or an
\* exception), and the observations pushes, pops, balanced (every call that
\* returned so far left the board as it found it), leaves (position and
\* score of every leaf), forwarded (positions given to the network) and
\* calls (position, depth and role of every _alpha_beta invocation, in
\* order) and tried (the root moves with the values get_move got for them).
Start(board, nodes) ==
    [board |-> board, nodes |-> nodes, value |-> 0, raised |-> FALSE,
     pushes |-> 0, pops |-> 0, balanced |-> TRUE,
     leaves |-> {}, forwarded |-> {}, calls |-> <<>>, tried |-> <<>>]

\* a call entered with the board at entry returns (or raises) in state st
Return(entry, st) ==
    [st EXCEPT !.balanced = @ /\ (st.raised \/ st.board = entry)]

Pushed(st, move) ==
    [st EXCEPT !.board = push(@, move), !.pushes = @ + 1]

Popped(st) == [st EXCEPT !.board = pop(@), !.pops = @ + 1]

\* the board traffic of sorted(moves, key=move_priority): move_priority
\* pushes each move, tests is_check and pops it
RECURSIVE OrderEffect(_, _)
OrderEffect(st, moves) ==
    IF moves = <<>> THEN st
    ELSE OrderEffect(Popped(Pushed(st, Head(moves))), Tail(moves))

Ordered(st, moves) == Return(st.board, OrderEffect(st, moves))

\* _evaluate_position with the mate scores exchanged
_evaluate_position_Swapped(st) ==
    LET pos == st.board IN
    IF is_checkmate(pos)
    THEN [st EXCEPT !.value = IF turn(pos) = "white" THEN PosInf ELSE NegInf]
    ELSE IF is_stalemate(pos) \/ is_insufficient_material(pos)
    THEN [st EXCEPT !.value = 0]
    ELSE [st EXCEPT !.value = forward(pos), !.raised = forward_raises(pos),
                    !.forwarded = @ \cup {pos}]

\* _evaluate_position that scores from the side to move
_evaluate_position_Flipped(st) ==
    LET pos == st.board IN
    IF is_checkmate(pos)
    THEN [st EXCEPT !.value = IF turn(pos) = "white" THEN NegInf ELSE PosInf]
    ELSE IF is_stalemate(pos) \/ is_insufficient_material(pos)
    THEN [st EXCEPT !.value = 0]
    ELSE [st EXCEPT !.value = IF turn(pos) = "white" THEN forward(pos)
                              ELSE 0 - forward(pos),
                    !.raised = forward_raises(pos),
                    !.forwarded = @ \cup {pos}]

_evaluate_position(st) ==
    LET pos == st.board IN
    IF is_checkmate(pos)
    THEN [st EXCEPT !.value = IF turn(pos) = "white" THEN NegInf ELSE PosInf]
    ELSE IF is_stalemate(pos) \/ is_insufficient_material(pos)
    THEN [st EXCEPT !.value = 0]
    ELSE [st EXCEPT !.value = forward(pos), !.raised = forward_raises(pos),
                    !.forwarded = @ \cup {pos}]

\* a leaf of the search: _alpha_beta returns self._evaluate_position(board)
Leaf(st) ==
    LET e == _evaluate_position(st) IN
    IF e.raised THEN e
    ELSE [e EXCEPT !.leaves = @ \cup {[pos |-> st.board, value |-> e.value]}]

RECURSIVE _alpha_beta(_, _, _, _, _)
RECURSIVE MaxLoop(_, _, _, _, _, _)
RECURSIVE MinLoop(_, _, _, _, _, _)

\* the loop of the maximizing branch over the remaining ordered moves
MaxLoop(st, d, moves, alpha, beta, max_eval) ==
    IF moves = <<>> THEN [st EXCEPT !.value = max_eval]
    ELSE LET r == _alpha_beta(Pushed(st, Head(moves)), d - 1,
                              alpha, beta, FALSE)
             p == Popped(r)
             new_max == Max(max_eval, r.value)
             new_alpha == Max(alpha, r.value)
         IN IF r.raised THEN r
            ELSE IF beta <= new_alpha THEN [p EXCEPT !.value = new_max]
            ELSE MaxLoop(p, d, Tail(moves), new_alpha, beta, new_max)

\* the loop of the minimizing branch over the remaining ordered moves
MinLoop(st, d, moves, alpha, beta, min_eval) ==
    IF moves = <<>> THEN [st EXCEPT !.value = min_eval]
    ELSE LET r == _alpha_beta(Pushed(st, Head(moves)), d - 1,
                              alpha, beta, TRUE)
             p == Popped(r)
             new_min == Min(min_eval, r.value)
             new_beta == Min(beta, r.value)
         IN IF r.raised THEN r
            ELSE IF new_beta <= alpha THEN [p EXCEPT !.value = new_min]
            ELSE MinLoop(p, d, Tail(moves), alpha, new_beta, new_min)

\* _alpha_beta whose base case tests game-over only
_alpha_beta_NoDepthTest(st, d, alpha, beta, maximizing) ==
    LET pos == st.board
        s1 == [st EXCEPT !.nodes = @ + 1,
                         !.calls = Append(@, [pos |-> pos, depth |-> d,
                                              maximizing |-> maximizing])]
    IN Return(pos,
        IF is_game_over(pos) THEN Leaf(s1)
        ELSE IF maximizing
        THEN MaxLoop(Ordered(s1, legal_moves(pos)), d,
                     _order_moves(pos, legal_moves(pos)),
                     alpha, beta, NegInf)
        ELSE MinLoop(Ordered(s1, legal_moves(pos)), d,
                     _order_moves(pos, legal_moves(pos)),
                     alpha, beta, PosInf))

_alpha_beta(st, d, alpha, beta, maximizing) ==
    LET pos == st.board
        s1 == [st EXCEPT !.nodes = @ + 1,
                         !.calls = Append(@, [pos |-> pos, depth |-> d,
                                              maximizing |-> maximizing])]
    IN Return(pos,
        IF d = 0 \/ is_game_over(pos) THEN Leaf(s1)
        ELSE IF legal_moves(pos) = <<>>
        THEN [s1 EXCEPT !.value = IF is_checkmate(pos)
                                  THEN IF maximizing THEN NegInf ELSE PosInf
                                  ELSE 0]
        ELSE IF maximizing
        THEN MaxLoop(Ordered(s1, legal_moves(pos)), d,
                     _order_moves(pos, legal_moves(pos)),
                     alpha, beta, NegInf)
        ELSE MinLoop(Ordered(s1, legal_moves(pos)), d,
                     _order_moves(pos, legal_moves(pos)),
                     alpha, beta, PosInf))

\* the maximizing argument get_move passes for a child: not board.turn,
\* read while the move is pushed
ChildMaximizing(child) == ~(turn(child) = "white")

\* what a call leaves: status, the value returned (ret), the best move and
\* value of the search (move 0 is None), and the final st
Outcome(status, ret, move, value, st) ==
    [status |-> status, ret |-> ret, move |-> move, value |-> value,
     nodes |-> st.nodes, board |-> st.board, pushes |-> st.pushes,
     pops |-> st.pops, balanced |-> st.balanced, leaves |-> st.leaves,
     forwarded |-> st.forwarded, calls |-> st.calls, tried |-> st.tried]

\* the outcome of the public method op called with the board at entry;
\* first holds the outcome of the call before it, if the scenario has one
Called(op, entry, outcome) ==
    [op |-> op, entry |-> entry, first |-> <<>>] @@ outcome

\* get_move has the value of a root move
Tried(st, move, value) ==
    [st EXCEPT !.tried = Append(@, [move |-> move, value |-> value])]

\* a root loop that stops as soon as beta <= alpha
RECURSIVE RootLoop_Prunes(_, _, _, _, _, _, _)
RootLoop_Prunes(st, d, moves, alpha, beta, best_move, best_value) ==
    IF moves = <<>> \/ beta <= alpha
    THEN Outcome("returned", <<best_move>>, best_move, best_value, st)
    ELSE LET move == Head(moves)
             white == turn(st.board) = "white"
             s1 == Pushed(st, move)
             r == _alpha_beta(s1, d - 1, alpha, beta,
                              ChildMaximizing(s1.board))
             better == IF white THEN r.value > best_value
                       ELSE r.value < best_value
         IN IF r.raised
            THEN Outcome("Exception", <<>>, 0, 0, r)
            ELSE RootLoop_Prunes(Tried(Popped(r), move, r.value), d,
                          Tail(moves),
                          IF white THEN Max(alpha, r.value) ELSE alpha,
                          IF white THEN beta ELSE Min(beta, r.value),
                          IF better THEN move ELSE best_move,
                          IF better THEN r.value ELSE best_value)

\* the loop of get_move over the ordered root moves
RECURSIVE RootLoop(_, _, _, _, _, _, _)
RootLoop(st, d, moves, alpha, beta, best_move, best_value) ==
    IF moves = <<>>
    THEN Outcome("returned", <<best_move>>, best_move, best_value, st)
    ELSE LET move == Head(moves)
             white == turn(st.board) = "white"
             s1 == Pushed(st, move)
             r == _alpha_beta(s1, d - 1, alpha, beta,
                              ChildMaximizing(s1.board))
             better == IF white THEN r.value > best_value
                       ELSE r.value < best_value
         IN IF r.raised
            THEN Outcome("Exception", <<>>, 0, 0, r)
            ELSE RootLoop(Tried(Popped(r), move, r.value), d, Tail(moves),
                          IF white THEN Max(alpha, r.value) ELSE alpha,
                          IF white THEN beta ELSE Min(beta, r.value),
                          IF better THEN move ELSE best_move,
                          IF better THEN r.value ELSE best_value)

\* get_move without the game-over test
get_move_NoGameOverTest(pos, depth_arg) ==
    Called("get_move", pos,
    LET d == IF depth_arg = 0 THEN self_search_depth ELSE depth_arg IN
    IF legal_moves(pos) = <<>>
    THEN Outcome("ValueError", <<>>, 0, 0, Start(pos, 0))
    ELSE IF Len(legal_moves(pos)) = 1
    THEN Outcome("single", <<legal_moves(pos)[1]>>, legal_moves(pos)[1], 0,
                 Start(pos, 0))
    ELSE RootLoop(Ordered(Start(pos, 0), legal_moves(pos)), d,
                  _order_moves(pos, legal_moves(pos)),
                  NegInf, PosInf, 0,
                  IF turn(pos) = "white" THEN NegInf ELSE PosInf))

\* get_move without the single-move shortcut
get_move_NoShortcut(pos, depth_arg) ==
    Called("get_move", pos,
    IF is_game_over(pos)
    THEN Outcome("ValueError", <<>>, 0, 0, Start(pos, result.nodes))
    ELSE LET d == IF depth_arg = 0 THEN self_search_depth ELSE depth_arg IN
         IF legal_moves(pos) = <<>>
         THEN Outcome("ValueError", <<>>, 0, 0, Start(pos, 0))
         ELSE LET r == RootLoop(Ordered(Start(pos, 0), legal_moves(pos)), d,
                                _order_moves(pos, legal_moves(pos)),
                                NegInf, PosInf, 0,
                                IF turn(pos) = "white" THEN NegInf
                                ELSE PosInf)
              IN IF Len(legal_moves(pos)) = 1 /\ r.status = "returned"
                 THEN [r EXCEPT !.status = "single"]
                 ELSE r)

\* get_move that keeps counting nodes from the call before
get_move_NoReset(pos, depth_arg) ==
    Called("get_move", pos,
    IF is_game_over(pos)
    THEN Outcome("ValueError", <<>>, 0, 0, Start(pos, result.nodes))
    ELSE LET d == IF depth_arg = 0 THEN self_search_depth ELSE depth_arg IN
         IF legal_moves(pos) = <<>>
         THEN Outcome("ValueError", <<>>, 0, 0, Start(pos, result.nodes))
         ELSE IF Len(legal_moves(pos)) = 1
         THEN Outcome("single", <<legal_moves(pos)[1]>>,
                      legal_moves(pos)[1], 0, Start(pos, result.nodes))
         ELSE RootLoop(Ordered(Start(pos, result.nodes), legal_moves(pos)),
                       d, _order_moves(pos, legal_moves(pos)),
                       NegInf, PosInf, 0,
                       IF turn(pos) = "white" THEN NegInf ELSE PosInf))

\* depth_arg 0 stands for an absent (None) or zero depth argument
get_move(pos, depth_arg) ==
    Called("get_move", pos,
    IF is_game_over(pos)
    THEN Outcome("ValueError", <<>>, 0, 0, Start(pos, result.nodes))
    ELSE LET d == IF depth_arg = 0 THEN self_search_depth ELSE depth_arg IN
         IF legal_moves(pos) = <<>>
         THEN Outcome("ValueError", <<>>, 0, 0, Start(pos, 0))
         ELSE IF Len(legal_moves(pos)) = 1
         THEN Outcome("single", <<legal_moves(pos)[1]>>,
                      legal_moves(pos)[1], 0, Start(pos, 0))
         ELSE RootLoop(Ordered(Start(pos, 0), legal_moves(pos)), d,
                       _order_moves(pos, legal_moves(pos)),
                       NegInf, PosInf, 0,
                       IF turn(pos) = "white" THEN NegInf ELSE PosInf))

\* evaluate_board(board): the score, or the exception, of the evaluator
evaluate_board(pos) ==
    Called("evaluate_board", pos,
    LET e == _evaluate_position(Start(pos, result.nodes)) IN
    Outcome(IF e.raised THEN "Exception" ELSE "evaluated",
            IF e.raised THEN <<>> ELSE <<e.value>>, 0, e.value, e))

\* depth arguments and configured depths outside 1..MaxDepth
DepthArgs == {0 - 1, 0} \cup 1..MaxDepth

ConfiguredDepths == {0 - 1, 0, 1, search_depth}

EffectiveDepth == IF depth = 0 THEN self_search_depth ELSE depth

\* plies in which positions are customised
StubPly == IF depth >= 1 THEN depth ELSE 1

\* Agent.__init__ stores search_depth as given and sets nodes_searched = 0
SearchInit ==
    /\ depth \in DepthArgs
    /\ self_search_depth \in
           IF depth = 0 THEN ConfiguredDepths ELSE {search_depth}
    /\ turn0 \in {"white", "black"}
    /\ stubs \in Scenarios(StubPly)
    /\ attrs = <<>>
    /\ fen = None
    /\ nodes_searched = 0
    /\ result = NoResult
    /\ capacity = MaxCapacity
    /\ cache = <<>>
    /\ lastOp = Op("init", <<>>, None, None, 0, <<>>)
    /\ touched = <<>>
    /\ ThreadsIdle

GetMove ==
    /\ result.status = "none"
    /\ result' = get_move(<<>>, depth)
    /\ nodes_searched' = result'.nodes
    /\ UNCHANGED <<scenarioVars, cacheVars, threadVars>>

\* evaluate_board on the board the scenario starts from
EvaluateBoard ==
    /\ result.status = "none"
    /\ result' = evaluate_board(<<>>)
    /\ nodes_searched' = result'.nodes
    /\ UNCHANGED <<scenarioVars, cacheVars, threadVars>>

\* a second get_move on the same board object, as the first call left it
GetMoveAgain ==
    /\ result.op = "get_move"
    /\ result.first = <<>>
    /\ result' = [get_move(result.board, depth) EXCEPT
                    !.first = <<[status |-> result.status,
                                 ret |-> result.ret,
                                 nodes |-> result.nodes,
                                 entry |-> result.entry]>>]
    /\ nodes_searched' = result'.nodes
    /\ UNCHANGED <<scenarioVars, cacheVars, threadVars>>

SearchNext == GetMove

SpecSearch == SearchInit /\ [][SearchNext]_vars

\* evaluate_board and get_move side by side, on searches of few plies
EvaluateInit == SearchInit /\ depth \in 1..MaxEvalDepth

EvaluateNext ==
    \/ GetMove
    \/ GetMoveAgain
    \/ EvaluateBoard

SpecEvaluate == EvaluateInit /\ [][EvaluateNext]_vars

\* ------------------------------------------------------ _order_moves alone
\* _order_moves on a board with three moves, each with what the rules
\* engine says of it: the piece it captures (None: no capture), whether the
\* capture is en passant, whether it gives check, whether it promotes.
GivenMoves == <<1, 2, 3>>

Pieces == {"PAWN", "KNIGHT", "BISHOP", "ROOK", "QUEEN"}

MoveAttrs ==
    {a \in [captures : Pieces \cup {None}, en_passant : BOOLEAN,
            check : BOOLEAN, promotion : BOOLEAN] :
        a.en_passant => a.captures = "PAWN" /\ ~a.promotion}

OrderInit ==
    /\ attrs \in [{GivenMoves[i] : i \in DOMAIN GivenMoves} -> MoveAttrs]
    /\ turn0 = "white"
    /\ stubs = <<>>
    /\ depth = 1
    /\ self_search_depth = search_depth
    /\ fen = None
    /\ nodes_searched = 0
    /\ result = NoResult
    /\ capacity = MaxCapacity
    /\ cache = <<>>
    /\ lastOp = Op("init", <<>>, None, None, 0, <<>>)
    /\ touched = <<>>
    /\ ThreadsIdle

\* the list _order_moves returns, the keys move_priority computed, and the
\* board it leaves
order_moves_call(pos, moves) ==
    [keys |-> [m \in {moves[i] : i \in DOMAIN moves} |->
                 move_priority(pos, m)]]
    @@ Called("_order_moves", pos,
              Outcome("ordered", _order_moves(pos, moves), 0, 0,
                      Ordered(Start(pos, nodes_searched), moves)))

OrderMoves ==
    /\ result.status = "none"
    /\ result' = order_moves_call(<<>>, GivenMoves)
    /\ UNCHANGED <<scenarioVars, nodes_searched, cacheVars, threadVars>>

OrderNext == OrderMoves

SpecOrder == OrderInit /\ [][OrderNext]_vars

\* ------------------------------------------------------------ StateEncoder
\* A position is what chess.Board(fen) holds: pieces (square -> piece),
\* turn, castling (the rights among K, Q, k, q), ep_square (<<>> for None,
\* <<square>> behind a pawn that has just advanced two squares) and, from the
\* rules engine, ep_legal: whether an en passant capture on ep_square is a
\* legal move.  Squares are numbered as chess.SQUARES, a1 = 0 .. h8 = 63.
\* A tensor is the set of its cells <<channel, rank, file>> that hold 1.0;
\* all other cells hold 0.0.
SQUARES == 0..63

square_rank(square) == square \div 8

square_file(square) == square % 8

A1 == 0

PIECE_TO_CHANNEL(piece_type) ==
    CASE piece_type = "PAWN" -> 0
      [] piece_type = "KNIGHT" -> 1
      [] piece_type = "BISHOP" -> 2
      [] piece_type = "ROOK" -> 3
      [] piece_type = "QUEEN" -> 4
      [] piece_type = "KING" -> 5

CHANNEL_TO_PIECE(channel) ==
    CHOOSE piece_type \in Pieces \cup {"KING"} :
        PIECE_TO_CHANNEL(piece_type) = channel

\* tensor[channel, rank, file] > 0.5
Set(tensor, channel, rank, file) == <<channel, rank, file>> \in tensor

\* encode_board that puts black pieces in the planes of the white pieces
encode_board_NoColorOffset(position) ==
    {<<PIECE_TO_CHANNEL(position.pieces[sq].piece_type),
       square_rank(sq), square_file(sq)>> : sq \in DOMAIN position.pieces}
    \cup (IF "K" \in position.castling THEN {<<12, 0, 0>>} ELSE {})
    \cup (IF "Q" \in position.castling THEN {<<12, 0, 1>>} ELSE {})
    \cup (IF "k" \in position.castling THEN {<<12, 7, 0>>} ELSE {})
    \cup (IF "q" \in position.castling THEN {<<12, 7, 1>>} ELSE {})
    \cup (IF position.turn = "white" THEN {<<13, 0, 0>>} ELSE {})
    \cup {<<13, square_rank(position.ep_square[i]),
              square_file(position.ep_square[i])>> :
                i \in DOMAIN position.ep_square}

encode_board(position) ==
    {<<PIECE_TO_CHANNEL(position.pieces[sq].piece_type)
         + (IF position.pieces[sq].color = "black" THEN 6 ELSE 0),
       square_rank(sq), square_file(sq)>> : sq \in DOMAIN position.pieces}
    \cup (IF "K" \in position.castling THEN {<<12, 0, 0>>} ELSE {})
    \cup (IF "Q" \in position.castling THEN {<<12, 0, 1>>} ELSE {})
    \cup (IF "k" \in position.castling THEN {<<12, 7, 0>>} ELSE {})
    \cup (IF "q" \in position.castling THEN {<<12, 7, 1>>} ELSE {})
    \cup (IF position.turn = "white" THEN {<<13, 0, 0>>} ELSE {})
    \cup {<<13, square_rank(position.ep_square[i]),
              square_file(position.ep_square[i])>> :
                i \in DOMAIN position.ep_square}

\* the channels of lo..hi set at the square
ChannelsSet(tensor, square, lo, hi) ==
    {ch \in lo..hi : Set(tensor, ch, square_rank(square),
                         square_file(square))}

\* the first of them, at which the loop over the channels breaks
FirstChannel(tensor, square, lo, hi) ==
    CHOOSE ch \in ChannelsSet(tensor, square, lo, hi) :
        \A other \in ChannelsSet(tensor, square, lo, hi) : ch <= other

\* decode_board, lines 139-155: the piece set_piece_at leaves on a square;
\* the loop over the black channels runs after the one over the white
DecodedPiece(tensor, square) ==
    IF ChannelsSet(tensor, square, 6, 11) # {}
    THEN [piece_type |->
              CHANNEL_TO_PIECE(FirstChannel(tensor, square, 6, 11) - 6),
          color |-> "black"]
    ELSE [piece_type |->
              CHANNEL_TO_PIECE(FirstChannel(tensor, square, 0, 5)),
          color |-> "white"]

\* decode_board, lines 173-180: the first square other than a1 set in
\* channel 13
DecodedEpSquare(tensor) ==
    LET set == {sq \in SQUARES \ {A1} :
                  Set(tensor, 13, square_rank(sq), square_file(sq))}
    IN IF set = {} THEN <<>>
       ELSE <<CHOOSE sq \in set : \A other \in set : sq <= other>>

\* the board decode_board builds
DecodedBoard(tensor) ==
    LET occupied == {sq \in SQUARES :
                       ChannelsSet(tensor, sq, 0, 11) # {}} IN
    [pieces |-> [sq \in occupied |-> DecodedPiece(tensor, sq)],
     turn |-> IF Set(tensor, 13, 0, 0) THEN "white" ELSE "black",
     castling |-> (IF Set(tensor, 12, 0, 0) THEN {"K"} ELSE {})
                  \cup (IF Set(tensor, 12, 0, 1) THEN {"Q"} ELSE {})
                  \cup (IF Set(tensor, 12, 7, 0) THEN {"k"} ELSE {})
                  \cup (IF Set(tensor, 12, 7, 1) THEN {"q"} ELSE {}),
     ep_square |-> DecodedEpSquare(tensor)]

\* board.has_legal_en_passant(): decided by the pieces, the turn and the
\* en passant square, which the board has in common with fen or not
has_legal_en_passant(board) ==
    /\ board.ep_square # <<>>
    /\ board.pieces = fen.pieces
    /\ board.turn = fen.turn
    /\ board.ep_square = fen.ep_square
    /\ fen.ep_legal

\* board.fen() without the move counters: the en passant field names the
\* square only if an en passant capture is legal (en_passant="legal")
board_fen(board) ==
    [pieces |-> board.pieces, turn |-> board.turn,
     castling |-> board.castling,
     ep_square |-> IF has_legal_en_passant(board) THEN board.ep_square
                   ELSE <<>>]

decode_board(tensor) == board_fen(DecodedBoard(tensor))

\* the positions given: at most MaxPieces pieces on a1, e3 and b8, the en
\* passant square d6 or e3 behind a pawn of the side that has just moved
PieceSquares == {0, 20, 57}

EpSquares(side_to_move) ==
    IF side_to_move = "white" THEN {<<43>>} ELSE {<<20>>}

ChessPieces ==
    [piece_type : Pieces \cup {"KING"}, color : {"white", "black"}]

Placements ==
    UNION {[S -> ChessPieces] :
             S \in {T \in SUBSET PieceSquares : Cardinality(T) <= MaxPieces}}

Positions ==
    {q \in [pieces : Placements, turn : {"white", "black"},
            castling : SUBSET {"K", "Q", "k", "q"},
            ep_square : {<<>>, <<20>>, <<43>>}, ep_legal : BOOLEAN] :
        /\ q.ep_square # <<>>
           => /\ q.ep_square \in EpSquares(q.turn)
              /\ q.ep_square[1] \notin DOMAIN q.pieces
        /\ q.ep_legal => q.ep_square # <<>>}

EncoderInit ==
    /\ fen \in Positions
    /\ attrs = <<>>
    /\ turn0 = "white"
    /\ stubs = <<>>
    /\ depth = 1
    /\ self_search_depth = search_depth
    /\ nodes_searched = 0
    /\ result = NoResult
    /\ capacity = MaxCapacity
    /\ cache = <<>>
    /\ lastOp = Op("init", <<>>, None, None, 0, <<>>)
    /\ touched = <<>>
    /\ ThreadsIdle

\* encoder.encode_board(fen)
EncodeBoard ==
    /\ result.status = "none"
    /\ result' = [NoResult EXCEPT !.op = "encode_board",
                                  !.status = "encoded",
                                  !.ret = <<encode_board(fen)>>]
    /\ UNCHANGED <<scenarioVars, nodes_searched, cacheVars, threadVars>>

\* encoder.decode_board(tensor) on the tensor encode_board returned
DecodeBoard ==
    /\ result.op = "encode_board"
    /\ result' = [NoResult EXCEPT !.op = "decode_board",
                                  !.status = "decoded",
                                  !.ret = <<decode_board(result.ret[1])>>]
    /\ UNCHANGED <<scenarioVars, nodes_searched, cacheVars, threadVars>>

EncoderNext ==
    \/ EncodeBoard
    \/ DecodeBoard

SpecEncoder == EncoderInit /\ [][EncoderNext]_vars

\* ---------------------------------------------------- threads on one Agent
\* Each thread calls get_move(board, depth) on a board object of its own,
\* both on the one Agent, and then get_nodes_searched.  The search reads
\* nothing but its own board and locals, so a thread's run is the run of
\* get_move alone, cut into the steps that touch self.nodes_searched: the
\* assignment at line 74 and the load and the store of += at line 145.
Alone == get_move(<<>>, depth)

\* a root, or the reply to move 1, customised, or nothing
AgentScenarios ==
    UNION {[S -> Kinds] : S \in {{}, {<<>>}, {<<1>>}}}

AgentsInit ==
    /\ depth \in 1..MaxEvalDepth
    /\ self_search_depth = search_depth
    /\ turn0 \in {"white", "black"}
    /\ stubs \in AgentScenarios
    /\ attrs = <<>>
    /\ fen = None
    /\ nodes_searched = 0
    /\ result = NoResult
    /\ capacity = MaxCapacity
    /\ cache = <<>>
    /\ cache0 = <<>>
    /\ lastOp = Op("init", <<>>, None, None, 0, <<>>)
    /\ touched = <<>>
    /\ pc = [t \in Threads |-> "gm70"]
    /\ call = [t \in Threads |->
                 [name |-> "get_move", todo |-> 0, loaded |-> 0,
                  ret |-> <<>>, reported |-> 0 - 1]]

AgentFrame == UNCHANGED <<cacheVars, cache0, scenarioVars, result>>

\* get_move, lines 70-71: raise ValueError if the game is over
AGameOverTest(t) ==
    /\ pc[t] = "gm70"
    /\ pc' = [pc EXCEPT ![t] = IF Alone.status = "ValueError"
                                THEN "raised" ELSE "gm74"]
    /\ UNCHANGED <<call, nodes_searched>>
    /\ AgentFrame

\* get_move, line 74: self.nodes_searched = 0
AReset(t) ==
    /\ pc[t] = "gm74"
    /\ nodes_searched' = 0
    /\ call' = [call EXCEPT ![t].todo = Alone.nodes]
    /\ pc' = [pc EXCEPT ![t] = IF Alone.nodes > 0 THEN "ab145"
                                ELSE "gm122"]
    /\ AgentFrame

\* _alpha_beta, line 145: the load of self.nodes_searched += 1
ALoad(t) ==
    /\ pc[t] = "ab145"
    /\ call' = [call EXCEPT ![t].loaded = nodes_searched]
    /\ pc' = [pc EXCEPT ![t] = "ab145store"]
    /\ UNCHANGED nodes_searched
    /\ AgentFrame

\* _alpha_beta, line 145: the store of self.nodes_searched += 1
AStore(t) ==
    /\ pc[t] = "ab145store"
    /\ nodes_searched' = call[t].loaded + 1
    /\ call' = [call EXCEPT ![t].todo = @ - 1]
    /\ pc' = [pc EXCEPT ![t] =
                 IF call[t].todo > 1 THEN "ab145"
                 ELSE IF Alone.status = "Exception" THEN "raised"
                 ELSE "gm122"]
    /\ AgentFrame

\* get_move, lines 84 and 122: return the move
AReturn(t) ==
    /\ pc[t] = "gm122"
    /\ call' = [call EXCEPT ![t].ret = Alone.ret]
    /\ pc' = [pc EXCEPT ![t] = "gn286"]
    /\ UNCHANGED nodes_searched
    /\ AgentFrame

\* get_nodes_searched, line 286: return self.nodes_searched
AReport(t) ==
    /\ pc[t] = "gn286"
    /\ call' = [call EXCEPT ![t].reported = nodes_searched]
    /\ pc' = [pc EXCEPT ![t] = "done"]
    /\ UNCHANGED nodes_searched
    /\ AgentFrame

AgentsNext ==
    \E t \in Threads :
        \/ AGameOverTest(t)
        \/ AReset(t)
        \/ ALoad(t)
        \/ AStore(t)
        \/ AReturn(t)
        \/ AReport(t)

SpecAgents == AgentsInit /\ [][AgentsNext]_vars

\* ------------------------------------------------------------------ claims
\* C1: with a capacity N >= 1 the number of cached entries never exceeds N,
\* whatever sequence of get, put, preload, remove and clear was run
C1_SizeWithinCapacity == capacity >= 1 => size(cache) <= capacity

C1_Witness ==
    /\ capacity >= 1
    /\ size(cache) = capacity
    /\ lastOp.evicted # <<>>

Suffix(s, n) == SubSeq(s, Len(s) - n + 1, Len(s))

\* the id among ids whose last touch is the oldest
LeastRecent(t, ids) == Head(Restrict(t, ids)).id

\* a put, or a get whose load succeeds, on an id that is not cached
InsertsNew(model_id) ==
    /\ ~contains(cache, model_id)
    /\ \/ \E model \in PutModels : Put(model_id, model)
       \/ Get(model_id, "ok")

C2_EvictsOneLRU ==
    \A model_id \in ModelIds :
        InsertsNew(model_id) /\ size(cache) = capacity =>
            /\ Len(lastOp'.evicted) = 1
            /\ lastOp'.evicted[1] =
                   LeastRecent(touched', Keys(cache) \cup {model_id})
            /\ ~contains(cache', lastOp'.evicted[1])
            /\ Keys(cache') =
                   (Keys(cache) \cup {model_id}) \ {lastOp'.evicted[1]}

C2_MostRecentRemain ==
    Keys(cache) = Keys(Suffix(touched, Min(Max(capacity, 0), Len(touched))))

\* C2: eviction is strict LRU: inserting a new id into a full cache evicts
\* exactly one entry, the least recently touched one, which is then no
\* longer contained; and the cached ids are always the capacity most
\* recently touched ones
C2_StrictLRU == []C2_MostRecentRemain /\ [][C2_EvictsOneLRU]_vars

C2_Witness ==
    /\ capacity = 2
    /\ lastOp.name = "get"
    /\ lastOp.loads = 1
    /\ Len(lastOp.evicted) = 1
    /\ Len(touched) > capacity
    /\ touched[1].id = lastOp.evicted[1]

\* a call that hands out or stores a handle for model_id
Touches(model_id) ==
    \/ \E model \in PutModels : Put(model_id, model)
    \/ \E outcome \in LoadOutcomes :
          Get(model_id, outcome) /\ lastOp'.ret # None

IdsOf(c) == [i \in DOMAIN c |-> c[i].id]

\* C3: every get that returns a handle and every put leaves the id first in
\* get_cached_ids() and keeps the relative order of the other entries
C3_TouchMakesMRU ==
    [][\A model_id \in ModelIds :
          Touches(model_id) =>
              /\ get_cached_ids(cache') # <<>>
              /\ Head(get_cached_ids(cache')) = model_id
              /\ IdsOf(Without(cache', model_id)) =
                     IdsOf(Restrict(Without(cache, model_id), Keys(cache')))
      ]_vars

\* C4: put on a cached id replaces its handle and refreshes its recency
\* only: same size, nothing evicted, every other entry keeps its handle
C4_UpdateInPlace ==
    [][\A model_id \in ModelIds, model \in PutModels :
          contains(cache, model_id) /\ Put(model_id, model) =>
              /\ size(cache') = size(cache)
              /\ Keys(cache') = Keys(cache)
              /\ lastOp'.evicted = <<>>
              /\ GetItem(cache', model_id) = model
              /\ Head(get_cached_ids(cache')) = model_id
              /\ \A other \in Keys(cache) \ {model_id} :
                    GetItem(cache', other) = GetItem(cache, other)
      ]_vars

C4_Witness ==
    /\ lastOp.name = "put"
    /\ lastOp.evicted = <<>>
    /\ size(cache) = capacity
    /\ capacity = 2
    /\ cache[2] = [id |-> lastOp.ids[1], model |-> "h2"]
    /\ touched = <<[id |-> "c", model |-> "h1"]>> \o cache

C5_NoNegativeEntry == \A i \in DOMAIN cache : cache[i].model # None

C5_FailedLoad ==
    \A model_id \in ModelIds, outcome \in LoadOutcomes :
        ~contains(cache, model_id) /\ Get(model_id, outcome) =>
            /\ lastOp'.loads = 1
            /\ outcome # "ok" =>
                  /\ lastOp'.ret = None
                  /\ cache' = cache
                  /\ lastOp'.evicted = <<>>

\* C5: a get on an uncached id whose load fails reports not-found and
\* leaves contents and order untouched; no empty entry is ever stored, and
\* every get on an uncached id calls the store again
C5_FailedLoadLeavesCache == []C5_NoNegativeEntry /\ [][C5_FailedLoad]_vars

C5_Witness ==
    /\ lastOp.name = "get"
    /\ lastOp.ret = None
    /\ lastOp.loads = 1
    /\ size(cache) = capacity
    /\ capacity = 2
    /\ ~contains(cache, lastOp.ids[1])

\* C6: a cache built with a capacity <= 0 never serves a get or a put
C6_NonPositiveCapacityRejected ==
    capacity <= 0 => lastOp.name \notin {"get", "put"}

RECURSIVE GetEach(_, _, _, _)
GetEach(c, cap, model_ids, outcomes) ==
    IF model_ids = <<>> THEN c
    ELSE GetEach(get(c, cap, Head(model_ids), Head(outcomes)).cache, cap,
                 Tail(model_ids), Tail(outcomes))

\* C7: preload(ids) leaves contents and recency order as a get on each id
\* of the list in order does, failed loads being skipped
C7_PreloadIsGetEach ==
    [][\A model_ids \in PreloadLists :
          \A oks \in [1..Len(model_ids) -> {"ok", "no_metadata"}] :
             Preload(model_ids, oks) =>
                 cache' = GetEach(cache, capacity, model_ids, oks)
      ]_vars

\* C8: while an id is cached, get returns the handle last stored for it and
\* makes no call to the external store
C8_HitIsPure ==
    [][\A model_id \in ModelIds, outcome \in LoadOutcomes :
          contains(cache, model_id) /\ Get(model_id, outcome) =>
              /\ contains(touched, model_id)
              /\ lastOp'.ret = GetItem(touched, model_id)
              /\ lastOp'.loads = 0
      ]_vars

C8_Witness ==
    /\ lastOp.name = "get"
    /\ lastOp.loads = 0
    /\ lastOp.ret = "h2"
    /\ size(cache) = 2
    /\ contains(cache, lastOp.ids[1])

\* the cache after one call run alone
RunAlone(c, cl, outcome) ==
    IF cl.name = "get" THEN get(c, capacity, cl.id, outcome).cache
    ELSE put(c, capacity, cl.id, cl.model).cache

\* the caches the two calls leave when one runs after the other
SerialCaches ==
    {RunAlone(RunAlone(cache0, call[t], o1), call[u], o2) :
        <<t, u, o1, o2>> \in
            {x \in Threads \X Threads \X LoadOutcomes \X LoadOutcomes :
                x[1] # x[2]}}

\* C9: concurrent get/put calls behave atomically: no call fails because
\* of the other thread, and when both are finished the cache is one that
\* some sequential order of the two calls produces
C9_ThreadsAtomic ==
    /\ \A t \in Threads : pc[t] # "KeyError"
    /\ (\A t \in Threads : pc[t] = "done") => cache \in SerialCaches

\* unpruned minimax of the given depth: White maximizes, Black minimizes,
\* children in the order of _order_moves; [value, nodes]
RECURSIVE Minimax(_, _)
RECURSIVE MinimaxLoop(_, _, _, _, _)
MinimaxLoop(pos, d, moves, best, nodes) ==
    IF moves = <<>> THEN [value |-> best, nodes |-> nodes]
    ELSE LET r == Minimax(Append(pos, Head(moves)), d - 1) IN
         MinimaxLoop(pos, d, Tail(moves),
                     IF turn(pos) = "white" THEN Max(best, r.value)
                     ELSE Min(best, r.value),
                     nodes + r.nodes)

Minimax(pos, d) ==
    IF d = 0 \/ is_game_over(pos)
    THEN [value |-> _evaluate_position(Start(pos, 0)).value, nodes |-> 1]
    ELSE MinimaxLoop(pos, d, _order_moves(pos, legal_moves(pos)),
                     IF turn(pos) = "white" THEN NegInf ELSE PosInf, 1)

\* the root of the unpruned search: first strictly better move wins
RECURSIVE MinimaxRoot(_, _, _, _, _, _)
MinimaxRoot(pos, d, moves, best_move, best_value, nodes) ==
    IF moves = <<>>
    THEN [move |-> best_move, value |-> best_value, nodes |-> nodes]
    ELSE LET r == Minimax(Append(pos, Head(moves)), d - 1)
             better == IF turn(pos) = "white" THEN r.value > best_value
                       ELSE r.value < best_value
         IN MinimaxRoot(pos, d, Tail(moves),
                        IF better THEN Head(moves) ELSE best_move,
                        IF better THEN r.value ELSE best_value,
                        nodes + r.nodes)

FullMinimax ==
    MinimaxRoot(<<>>, depth, _order_moves(<<>>, legal_moves(<<>>)), 0,
                IF turn0 = "white" THEN NegInf ELSE PosInf, 0)

\* C10: the move and score get_move selects with alpha-beta pruning equal
\* those of an unpruned minimax of the same depth (White maximizing, Black
\* minimizing, same move order and tie-break), and pruning never visits
\* more nodes than the unpruned search
C10_AlphaBetaIsMinimax ==
    /\ result.status = "returned"
    /\ depth >= 1
    /\ \A p \in DOMAIN stubs : stubs[p] # "nn_raises"
    =>
        /\ result.move = FullMinimax.move
        /\ result.value = FullMinimax.value
        /\ result.nodes <= FullMinimax.nodes

\* the moves of a sequence
Range(seq) == {seq[i] : i \in DOMAIN seq}

\* get_move returned a value (from the search or from the shortcut)
Returned == result.op = "get_move" /\ result.status \in {"returned", "single"}

\* C11: for a position that is not game-over, a depth >= 1 and an evaluator
\* with values in the Score domain, the move get_move returns is one of the
\* legal moves of the position, never the absent move.
C11_ReturnsLegalMove ==
    Returned /\ EffectiveDepth >= 1
    => /\ result.ret # <<>>
       /\ result.ret[1] \in Range(legal_moves(result.entry))

\* C12: get_move returns the pair (move, score), score being the search
\* value of the returned move.
C12_ReturnsMoveAndScore ==
    result.op = "get_move" /\ result.status = "returned"
    /\ EffectiveDepth >= 1
    => result.ret = <<result.move, result.value>>

\* C13: when get_move returns normally, and when any _alpha_beta call or
\* _order_moves call returns (after a cutoff too), the board has the move
\* stack it had when that call was entered, and every push has its pop.
C13_UndoInvariant ==
    /\ result.balanced
    /\ Returned => /\ result.board = result.entry
                   /\ result.pushes = result.pops

\* a search of two plies or more that returned after a cutoff
C13_Witness ==
    /\ depth >= 2
    /\ result.op = "get_move" /\ result.status = "returned"
    /\ \A p \in DOMAIN stubs : stubs[p] # "nn_raises"
    /\ result.nodes < FullMinimax.nodes
    /\ result.pushes > 0
    /\ result.board = <<>>

\* C14: when the evaluator fails while moves of the search are on the
\* board, get_move undoes them before the exception leaves it.
C14_RestoredOnFailure ==
    result.op = "get_move" /\ result.status = "Exception"
    => result.board = result.entry

\* C15: get_move on a game-over position fails before any recursion: no
\* move is pushed, the evaluator is not called and nothing is returned.
C15_GameOverRejected ==
    result.op = "get_move" /\ is_game_over(result.entry)
    => /\ result.status = "ValueError"
       /\ result.ret = <<>>
       /\ result.pushes = 0
       /\ result.board = result.entry
       /\ result.nodes = 0
       /\ result.forwarded = {}
       /\ result.leaves = {}

\* get_move refused a root that is drawn although it has legal moves
C15_Witness ==
    /\ result.op = "get_move"
    /\ KindAt(result.entry) \in {"insufficient_material",
                                 "fivefold_repetition"}
    /\ legal_moves(result.entry) # <<>>
    /\ result.status = "ValueError"

\* C16: a get_move call whose effective depth (the argument, or
\* self.search_depth when the argument is absent) is below 1 is rejected
\* before any recursion begins.
C16_DepthBelowOneRejected ==
    result.op = "get_move" /\ EffectiveDepth < 1
    => /\ result.status = "ValueError"
       /\ result.pushes = 0
       /\ result.nodes = 0

\* C17: with exactly one legal move get_move returns that move at once:
\* the evaluator is not called, no move is pushed and nodes_searched is 0.
C17_SingleMoveShortcut ==
    /\ result.op = "get_move"
    /\ ~is_game_over(result.entry)
    /\ Len(legal_moves(result.entry)) = 1
    => /\ result.status = "single"
       /\ result.ret = <<legal_moves(result.entry)[1]>>
       /\ result.nodes = 0
       /\ result.pushes = 0
       /\ result.board = result.entry
       /\ result.forwarded = {}

\* the shortcut was taken at a root whose only move leads to a position the
\* network would score
C17_Witness ==
    /\ result.op = "get_move"
    /\ KindAt(result.entry) = "one_move"
    /\ <<1>> \in DOMAIN stubs /\ stubs[<<1>>] = "nn_plus1"
    /\ result.status = "single"
    /\ result.ret = <<1>>

\* the position is one of the three endings _evaluate_position scores itself
Terminal(pos) ==
    is_checkmate(pos) \/ is_stalemate(pos) \/ is_insufficient_material(pos)

\* -infinity when White is mated, +infinity when Black is mated, 0 for a draw
TerminalScore(pos) ==
    IF is_checkmate(pos)
    THEN IF turn(pos) = "white" THEN NegInf ELSE PosInf
    ELSE 0

\* C18: evaluate on a checkmate position returns -infinity when White is
\* to move and +infinity when Black is to move, on stalemate or
\* insufficient material exactly 0, and a checkmate or stalemate leaf of the
\* search gets the same scores.
C18_TerminalScores ==
    /\ result.op = "evaluate_board" /\ Terminal(result.entry)
       => /\ result.status = "evaluated"
          /\ result.ret = <<TerminalScore(result.entry)>>
    /\ \A l \in result.leaves :
         Terminal(l.pos) => l.value = TerminalScore(l.pos)

\* a search scored a leaf in which Black is mated while another leaf went
\* to the network
C18_Witness ==
    /\ result.op = "get_move" /\ result.status = "returned"
    /\ \E l \in result.leaves :
         /\ is_checkmate(l.pos) /\ turn(l.pos) = "black"
         /\ l.value = PosInf
    /\ result.forwarded # {}

\* C19: for every game-over position, passed to evaluate or reached as a
\* leaf of the search, the score is produced without a forward call.
C19_NoForwardOnGameOver ==
    \A p \in result.forwarded : ~is_game_over(p)

\* C20: for a position that is not checkmate, stalemate or insufficient
\* material, evaluate returns the output of the network unchanged (no
\* clamping, no sign flip for the side to move) and leaves the board alone.
C20_ModelOutputUnchanged ==
    /\ /\ result.op = "evaluate_board"
       /\ ~Terminal(result.entry)
       /\ ~forward_raises(result.entry)
       => /\ result.status = "evaluated"
          /\ result.ret = <<forward(result.entry)>>
          /\ result.board = result.entry
          /\ result.pushes = 0
    /\ \A l \in result.leaves :
         ~Terminal(l.pos) => l.value = forward(l.pos)

\* evaluate returned the network's -1 with Black to move
C20_Witness ==
    /\ result.op = "evaluate_board" /\ result.status = "evaluated"
    /\ turn(result.entry) = "black"
    /\ KindAt(result.entry) = "nn_minus1"
    /\ result.ret = <<0 - 1>>

\* an invocation that does not stop at the base case
Interior(c) == c.depth # 0 /\ ~is_game_over(c.pos)

\* C25: every interior node of the search, the direct children of the root
\* included, is a maximizing node exactly when White is to move in its
\* position and a minimizing node exactly when Black is to move.
C25_RoleFollowsSideToMove ==
    result.op = "get_move" /\ EffectiveDepth >= 1
    => \A i \in DOMAIN result.calls :
         Interior(result.calls[i])
         => (result.calls[i].maximizing
             <=> turn(result.calls[i].pos) = "white")

\* the number of _alpha_beta invocations on position pos
Invocations(pos) ==
    Cardinality({i \in DOMAIN result.calls : result.calls[i].pos = pos})

\* C26: get_move on a position with two or more legal moves applies,
\* searches and undoes every legal root move exactly once, whatever the
\* earlier children returned.
C26_RootNeverPrunes ==
    result.op = "get_move" /\ result.status = "returned"
    => /\ \A m \in Range(legal_moves(result.entry)) :
            Invocations(push(result.entry, m)) = 1
       /\ Len(result.tried) = Len(legal_moves(result.entry))
       /\ result.board = result.entry

\* White's first root move scored +infinity, so that alpha met beta, and
\* the second root move was searched all the same
C26_Witness ==
    /\ result.op = "get_move" /\ result.status = "returned"
    /\ turn(result.entry) = "white"
    /\ Len(result.tried) = 2
    /\ result.tried[1].value = PosInf
    /\ Invocations(push(result.entry, result.tried[2].move)) = 1

\* the best of the values the root got: the greatest for White, the least
\* for Black
BestTried ==
    CHOOSE v \in {result.tried[i].value : i \in DOMAIN result.tried} :
      \A i \in DOMAIN result.tried :
        IF turn(result.entry) = "white" THEN result.tried[i].value <= v
        ELSE result.tried[i].value >= v

\* the first root move, in the order visited, that got the best value
FirstBest ==
    LET i == CHOOSE j \in DOMAIN result.tried :
               /\ result.tried[j].value = BestTried
               /\ \A k \in 1..(j - 1) : result.tried[k].value # BestTried
    IN result.tried[i].move

\* C27: among the root moves that reach the best value, the one visited
\* first in priority order is the move returned.
C27_FirstBestMoveReturned ==
    result.op = "get_move" /\ result.status = "returned"
    /\ EffectiveDepth >= 1
    => result.ret = <<FirstBest>>

\* C30: in a get_move call with depth >= 1 every invocation has a
\* remaining depth one less than its parent's and never below 0, an
\* invocation at depth 0 or at a game-over position recurses no further,
\* and nothing deeper than depth plies below the root is explored.
C30_DepthDecreasesToZero ==
    result.op = "get_move" /\ EffectiveDepth >= 1
    => \A i \in DOMAIN result.calls :
         LET c == result.calls[i] IN
         /\ c.depth = EffectiveDepth - (Len(c.pos) - Len(result.entry))
         /\ c.depth >= 0
         /\ ~Interior(c)
            => \A j \in DOMAIN result.calls :
                 ~(/\ Len(result.calls[j].pos) > Len(c.pos)
                   /\ SubSeq(result.calls[j].pos, 1, Len(c.pos)) = c.pos)

\* a search of MaxDepth plies that stopped at a game-over position after
\* one ply and reached depth 0 elsewhere
C30_Witness ==
    /\ result.op = "get_move" /\ result.status = "returned"
    /\ depth = MaxDepth
    /\ \E i, j \in DOMAIN result.calls :
         /\ is_game_over(result.calls[i].pos)
         /\ result.calls[i].depth = MaxDepth - 1
         /\ result.calls[j].depth = 0
         /\ Len(result.calls[j].pos) = MaxDepth

\* C22: two successive get_move calls on the same board object with the
\* same depth return the same move; the first call leaves no state (board,
\* node counter, bounds) that changes the result of the second.
C22_SecondCallSame ==
    /\ result.op = "get_move"
    /\ result.first # <<>>
    /\ result.first[1].status \in {"returned", "single"}
    => /\ result.status = result.first[1].status
       /\ result.ret = result.first[1].ret
       /\ result.nodes = result.first[1].nodes
       /\ result.entry = result.first[1].entry
       /\ result.board = result.entry

\* the second of two searches of two plies or more returned a move
C22_Witness ==
    /\ result.op = "get_move"
    /\ result.first # <<>>
    /\ result.first[1].status = "returned"
    /\ result.status = "returned"
    /\ depth >= 2
    /\ result.nodes > 2
    /\ result.ret # <<0>>

\* C21: concurrent get_move invocations on distinct boards share no
\* mutable state: in every interleaving each invocation returns the move
\* and reports the node count it returns and reports when run alone.
C21_ThreadsAsAlone ==
    \A t \in Threads :
        pc[t] = "done"
        => /\ call[t].ret = Alone.ret
           /\ call[t].reported = Alone.nodes

\* the material value of a piece
MaterialValue(piece) ==
    CASE piece = "PAWN" -> 1
      [] piece = "KNIGHT" -> 3
      [] piece = "BISHOP" -> 3
      [] piece = "ROOK" -> 5
      [] piece = "QUEEN" -> 9
      [] piece = "KING" -> 0

\* the priority of a move: 10 x the value of the piece it captures (en
\* passant captures a pawn), plus 50 for a check, plus 100 for a promotion
Priority(m) ==
    (IF attrs[m].captures # None
     THEN 10 * MaterialValue(attrs[m].captures) ELSE 0)
    + (IF attrs[m].check THEN 50 ELSE 0)
    + (IF attrs[m].promotion THEN 100 ELSE 0)

\* the place of move m in a list without duplicates
PlaceIn(seq, m) == CHOOSE i \in DOMAIN seq : seq[i] = m

\* seq holds every given move once, by descending prio, moves of equal
\* prio in the order given
StableDescending(seq, prio(_)) ==
    /\ Len(seq) = Len(GivenMoves)
    /\ Range(seq) = Range(GivenMoves)
    /\ \A i, j \in DOMAIN seq :
         i < j => \/ prio(seq[i]) > prio(seq[j])
                  \/ /\ prio(seq[i]) = prio(seq[j])
                     /\ PlaceIn(GivenMoves, seq[i])
                        < PlaceIn(GivenMoves, seq[j])

\* C28: _order_moves returns a permutation of the given moves in
\* descending priority, moves of equal priority in their original order; a
\* queen capture comes before a move that only gives check and before
\* quiet moves.
C28_StableDescendingPriority ==
    result.op = "_order_moves"
    => StableDescending(result.ret, Priority)

\* the priority move_priority computed for move m
KeyPriority(m) == 0 - result.keys[m]

\* the order returned is the stable descending order of the priorities
\* move_priority computed
C28_SortedByComputedKeys ==
    result.op = "_order_moves"
    => StableDescending(result.ret, KeyPriority)

\* C29: the priority of a move is 10 x the material value of the piece it
\* captures (a capture of any kind, en passant included), plus 50 if it
\* gives check, plus 100 if it is a promotion, and 0 if it is none of these.
C29_PriorityOfMove ==
    result.op = "_order_moves"
    => \A m \in DOMAIN result.keys : KeyPriority(m) = Priority(m)

\* move_priority is as stated for every move that is not an en passant
\* capture
C29_ExceptEnPassant ==
    result.op = "_order_moves"
    => \A m \in DOMAIN result.keys :
         ~attrs[m].en_passant => KeyPriority(m) = Priority(m)

\* C23: decode_board(encode_board(p)) reproduces the piece placement, the
\* side to move, the castling rights and the en passant square of p.
C23_RoundTrip ==
    result.op = "decode_board"
    => /\ result.ret[1].pieces = fen.pieces
       /\ result.ret[1].turn = fen.turn
       /\ result.ret[1].castling = fen.castling
       /\ result.ret[1].ep_square = fen.ep_square

\* the round trip reproduces everything but an en passant square on which
\* no capture is legal
C23_ExceptIdleEnPassant ==
    result.op = "decode_board"
    => /\ result.ret[1].pieces = fen.pieces
       /\ result.ret[1].turn = fen.turn
       /\ result.ret[1].castling = fen.castling
       /\ fen.ep_legal \/ fen.ep_square = <<>>
          => result.ret[1].ep_square = fen.ep_square

\* the plane of a piece
PlaneOf(piece) ==
    (CASE piece.piece_type = "PAWN" -> 0
       [] piece.piece_type = "KNIGHT" -> 1
       [] piece.piece_type = "BISHOP" -> 2
       [] piece.piece_type = "ROOK" -> 3
       [] piece.piece_type = "QUEEN" -> 4
       [] piece.piece_type = "KING" -> 5)
    + (IF piece.color = "white" THEN 0 ELSE 6)

\* the cells of a plane that hold 1.0
Plane(tensor, channel) == {cell \in tensor : cell[1] = channel}

\* C24: on each square exactly one of the 12 piece planes is 1.0 when the
\* square is occupied, the plane of that piece, and none when it is empty
\* (the plane of each piece is set at its square, and every cell set in the
\* piece planes is the plane of the piece on the square of the cell);
\* plane 12 is non-zero only at its four castling cells, each set iff the
\* right holds; plane 13 has its side-to-move cell set iff White is to move
\* and at most one other cell set, the en passant square.
C24_ReferenceEncoding ==
    result.op = "encode_board"
    => LET tensor == result.ret[1] IN
       /\ \A cell \in tensor :
            cell[1] \in 0..13 /\ cell[2] \in 0..7 /\ cell[3] \in 0..7
       /\ \A sq \in DOMAIN fen.pieces :
            <<PlaneOf(fen.pieces[sq]), square_rank(sq), square_file(sq)>>
                \in tensor
       /\ \A cell \in tensor :
            cell[1] \in 0..11
            => /\ cell[2] * 8 + cell[3] \in DOMAIN fen.pieces
               /\ cell[1] = PlaneOf(fen.pieces[cell[2] * 8 + cell[3]])
       /\ Plane(tensor, 12)
          = {<<12, 0, 0>> : x \in {"K"} \cap fen.castling}
            \cup {<<12, 0, 1>> : x \in {"Q"} \cap fen.castling}
            \cup {<<12, 7, 0>> : x \in {"k"} \cap fen.castling}
            \cup {<<12, 7, 1>> : x \in {"q"} \cap fen.castling}
       /\ <<13, 0, 0>> \in tensor <=> fen.turn = "white"
       /\ Plane(tensor, 13) \ {<<13, 0, 0>>}
          = IF fen.ep_square = <<>> THEN {}
            ELSE {<<13, square_rank(fen.ep_square[1]),
                    square_file(fen.ep_square[1])>>}

\* a position with a black and a white piece, Black to move, mixed castling
\* rights and the en passant square e3 was encoded
C24_Witness ==
    /\ result.op = "encode_board"
    /\ fen.turn = "black"
    /\ fen.ep_square = <<20>>
    /\ fen.castling = {"K", "q"}
    /\ \E a, b \in DOMAIN fen.pieces :
         fen.pieces[a].color = "black" /\ fen.pieces[b].color = "white"
    /\ <<13, 2, 4>> \in result.ret[1]

====
